---- MODULE Spec2Model ----
(***************************************************************************)
(* A model of the DOCX-to-PDF conversion service: the two request handlers *)
(* of app.py (POST /convert, POST /api/convert), the converter dispatcher  *)
(* app.perform_conversion and the library entry point                      *)
(* docx_pdf_converter.convert_docx_to_pdf, running over one shared temp    *)
(* directory.  A file name is a sequence of characters, a character is a   *)
(* one-token string; a path is <<directory, name>>.                        *)
(***************************************************************************)
EXTENDS Integers, Sequences, FiniteSets, TLC

\* Number of request-handling threads the server runs side by side.
NumRequests == 2
\* Number of calls the dispatcher's direct caller makes one after another.
MaxCalls == 2

Procs == 1 .. NumRequests

\* ------------------------------------------------------------------ text

\* str.lower() on the characters the uploads use.
Lower(c) ==
    CASE c = "A" -> "a"
      [] c = "C" -> "c"
      [] c = "D" -> "d"
      [] c = "L" -> "l"
      [] c = "N" -> "n"
      [] c = "O" -> "o"
      [] c = "R" -> "r"
      [] c = "U" -> "u"
      [] c = "X" -> "x"
      [] OTHER -> c

\* str.upper() on the characters the uploads use.
Upper(c) ==
    CASE c = "a" -> "A"
      [] c = "b" -> "B"
      [] c = "c" -> "C"
      [] c = "d" -> "D"
      [] c = "e" -> "E"
      [] c = "l" -> "L"
      [] c = "n" -> "N"
      [] c = "o" -> "O"
      [] c = "p" -> "P"
      [] c = "t" -> "T"
      [] c = "u" -> "U"
      [] c = "x" -> "X"
      [] OTHER -> c

LowerSeq(s) == [i \in 1 .. Len(s) |-> Lower(s[i])]
UpperSeq(s) == [i \in 1 .. Len(s) |-> Upper(s[i])]

\* Characters the pattern [A-Za-z0-9_.-] of secure_filename keeps.
AsciiSafe ==
    {"a", "b", "c", "d", "e", "l", "n", "o", "p", "t", "u", "x",
     "A", "C", "D", "L", "N", "O", "R", "U", "X", "1", "_", ".", "-"}

\* Position of the last "." of s, 0 when there is none (str.rfind + 1).
LastDot(s) ==
    LET dots == {i \in 1 .. Len(s) : s[i] = "."}
    IN  IF dots = {} THEN 0 ELSE CHOOSE i \in dots : \A j \in dots : j <= i

\* Position of the first "." of s, 0 when there is none.
FirstDot(s) ==
    LET dots == {i \in 1 .. Len(s) : s[i] = "."}
    IN  IF dots = {} THEN 0 ELSE CHOOSE i \in dots : \A j \in dots : i <= j

ALLOWED_EXTENSIONS == {<<"d", "o", "c", "x">>}

\* filename.split('.')[1] in place of rsplit('.', 1)[1]: the first suffix.
allowed_file_FirstSuffix(filename) ==
    LET dots == {i \in 1 .. Len(filename) : filename[i] = "."}
        first == FirstDot(filename)
        later == {i \in dots : i > first}
        stop == IF later = {} THEN Len(filename) + 1
                ELSE CHOOSE i \in later : \A j \in later : i <= j
    IN  /\ first > 0
        /\ LowerSeq(SubSeq(filename, first + 1, stop - 1)) \in ALLOWED_EXTENSIONS

\* allowed_file: '.' in filename and filename.rsplit('.', 1)[1].lower() in ALLOWED_EXTENSIONS
allowed_file(filename) ==
    /\ LastDot(filename) > 0
    /\ LowerSeq(SubSeq(filename, LastDot(filename) + 1, Len(filename)))
           \in ALLOWED_EXTENSIONS

\* pathlib's PurePath.stem of a single path component: the name without its
\* last suffix; a leading or a trailing dot starts no suffix.
Stem(name) ==
    LET i == LastDot(name)
    IN  IF i > 1 /\ i < Len(name) THEN SubSeq(name, 1, i - 1) ELSE name

PDF_EXT == <<".", "p", "d", "f">>

\* ---- werkzeug.utils.secure_filename, step by step

\* unicodedata.normalize("NFKD", ..).encode("ascii", "ignore"): an accented
\* letter keeps its base letter, a character without ASCII decomposition goes.
AsciiFold(s) ==
    LET F[i \in 0 .. Len(s)] ==
            IF i = 0 THEN <<>>
            ELSE IF s[i] = "E_ACUTE" THEN Append(F[i - 1], "e")
            ELSE IF s[i] = "CJK" THEN F[i - 1]
            ELSE Append(F[i - 1], s[i])
    IN  F[Len(s)]

\* filename.replace(sep, " ") for os.sep and os.path.altsep.
ReplaceSeps(s) == [i \in 1 .. Len(s) |-> IF s[i] = "/" THEN " " ELSE s[i]]

\* "_".join(filename.split()): runs of white space become one "_", white
\* space at either end goes.
JoinWords(s) ==
    LET F[i \in 0 .. Len(s)] ==
            IF i = 0 THEN <<>>
            ELSE IF s[i] = " " THEN F[i - 1]
            ELSE IF F[i - 1] # <<>> /\ s[i - 1] = " "
                 THEN F[i - 1] \o <<"_", s[i]>>
            ELSE Append(F[i - 1], s[i])
    IN  F[Len(s)]

\* _filename_ascii_strip_re.sub("", ..): drop what is not in [A-Za-z0-9_.-].
StripUnsafe(s) == SelectSeq(s, LAMBDA c : c \in AsciiSafe)

\* str.strip("._")
StripDotsUnderscores(s) ==
    LET keep == {i \in 1 .. Len(s) : s[i] \notin {".", "_"}}
    IN  IF keep = {} THEN <<>>
        ELSE LET lo == CHOOSE i \in keep : \A j \in keep : i <= j
                 hi == CHOOSE i \in keep : \A j \in keep : j <= i
             IN  SubSeq(s, lo, hi)

\* filename.split(".")[0]
BeforeFirstDot(s) ==
    LET dots == {i \in 1 .. Len(s) : s[i] = "."}
    IN  IF dots = {} THEN s
        ELSE SubSeq(s, 1, (CHOOSE i \in dots : \A j \in dots : i <= j) - 1)

WindowsDeviceFiles ==
    {<<"C", "O", "N">>, <<"P", "R", "N">>, <<"A", "U", "X">>, <<"N", "U", "L">>}

secure_filename(filename, nt) ==
    LET s == StripDotsUnderscores(StripUnsafe(JoinWords(ReplaceSeps(AsciiFold(filename)))))
    IN  IF nt /\ s # <<>> /\ UpperSeq(BeforeFirstDot(s)) \in WindowsDeviceFiles
        THEN <<"_">> \o s
        ELSE s

\* ------------------------------------------------------------- file names

N_empty == <<>>
N_a_docx == <<"a", ".", "d", "o", "c", "x">>
N_Rep_DOCX == <<"R", "e", "p", ".", "D", "O", "C", "X">>
N_a_txt == <<"a", ".", "t", "x", "t">>
N_a_b_docx == <<"a", " ", "b", ".", "d", "o", "c", "x">>
N_dot_docx == <<".", "d", "o", "c", "x">>
N_a_dot_b_docx == <<"a", ".", "b", ".", "d", "o", "c", "x">>
N_docx == <<"d", "o", "c", "x">>
N_a_docx_txt == <<"a", ".", "d", "o", "c", "x", ".", "t", "x", "t">>
N_accent_docx == <<"E_ACUTE", ".", "d", "o", "c", "x">>
N_cjk_a_docx == <<"CJK", "a", ".", "d", "o", "c", "x">>
N_dir_a_docx == <<".", ".", "/", "a", ".", "d", "o", "c", "x">>
N_us_a_docx == <<"_", "a", ".", "d", "o", "c", "x">>
N_nul_docx == <<"n", "u", "l", ".", "d", "o", "c", "x">>
N_a_Docx == <<"a", ".", "D", "o", "c", "x">>
N_a_docx_sp == <<"a", ".", "d", "o", "c", "x", " ">>
N_b_docx == <<"b", ".", "d", "o", "c", "x">>
N_a_pdf == <<"a", ".", "p", "d", "f">>
N_b_pdf == <<"b", ".", "p", "d", "f">>

\* Upload file names of the single-request runs: every branch of
\* allowed_file, secure_filename and Path.stem.
AllNames ==
    {N_empty, N_a_docx, N_Rep_DOCX, N_a_txt, N_a_b_docx, N_dot_docx,
     N_a_dot_b_docx, N_docx, N_a_docx_txt, N_accent_docx, N_cjk_a_docx,
     N_dir_a_docx, N_us_a_docx, N_nul_docx, N_a_Docx, N_a_docx_sp}

\* Upload file names of the concurrent runs.
ConcNames == {N_a_docx, N_a_txt}

\* uuid.uuid4() values, as one-token prefixes.
UuidToken == <<"u1", "u2", "u3", "u4", "u5", "u6">>

\* ------------------------------------------------------------------ paths

UPLOAD_FOLDER == "tmp"

\* os.path.join(directory, name)
Join(dir, name) == <<dir, name>>
\* os.path.dirname / os.path.basename
Dirname(path) == path[1]
Basename(path) == path[2]
NoPath == <<"", <<>>>>

pdf_filename_FirstDot(filename) ==
    (IF FirstDot(filename) > 1
     THEN SubSeq(filename, 1, FirstDot(filename) - 1) ELSE filename) \o PDF_EXT

\* pdf_filename = Path(filename).stem + '.pdf'
pdf_filename_of(filename) == Stem(filename) \o PDF_EXT

WebTempName_Unique(r, name) == <<UuidToken[r], "_">> \o name

\* /convert: os.path.join(UPLOAD_FOLDER, filename) and
\* os.path.join(UPLOAD_FOLDER, pdf_filename): the name is used as it is,
\* whichever thread r handles the request.
WebTempName(r, name) == name

ApiTempName_NoPrefix(unique_id, name) == name

\* /api/convert: f"{unique_id}_{name}"
ApiTempName(unique_id, name) == <<unique_id, "_">> \o name

\* The output LibreOffice writes for --outdir outdir: the input's base name
\* with its extension replaced by .pdf.
LibreOfficeOutput(outdir, docx_path) ==
    Join(outdir, Stem(Basename(docx_path)) \o PDF_EXT)

expected_pdf_InputDir(docx_path, pdf_path) ==
    Join(Dirname(docx_path), Stem(Basename(docx_path)) \o PDF_EXT)

\* expected_pdf = os.path.join(os.path.dirname(pdf_path),
\*                             Path(os.path.basename(docx_path)).stem + '.pdf')
expected_pdf(docx_path, pdf_path) ==
    Join(Dirname(pdf_path), Stem(Basename(docx_path)) \o PDF_EXT)

\* ------------------------------------------------------------------ state

VARIABLES
    IS_WINDOWS,    \* platform.system() == 'Windows'
    USE_DOCX2PDF,  \* docx2pdf and pythoncom were imported
    live,          \* the threads that take requests or make calls
    pool,          \* the upload file names clients send
    fs,            \* the file system: path -> [by, from, call]
    req,           \* per thread: the locals of the running handler or call
    resp,          \* per thread: the response of the handler
    hist,          \* per thread: counts of what the thread has done
    used,          \* the uuid4 values drawn so far
    interf         \* the threads that overwrote, read or deleted a file of another

vars == <<IS_WINDOWS, USE_DOCX2PDF, live, pool, fs, req, resp, hist, used, interf>>

\* str(uuid.uuid4()): a value no earlier request drew.  The values are
\* interchangeable, so the first unused token stands for the draw.
uuid4 == UuidToken[Cardinality(used) + 1]

\* The server starts a thread for each request as it arrives: thread r
\* handles the r-th request.
Arrives(r) ==
    /\ r \in live
    /\ req[r].pc = "idle"
    /\ \A q \in live : q < r => req[q].pc # "idle"

Exists(path) == path \in DOMAIN fs
WriteFile(f, path, c) == [q \in DOMAIN f \cup {path} |-> IF q = path THEN c ELSE f[q]]
RemoveFile(f, path) == [q \in DOMAIN f \ {path} |-> f[q]]
\* os.rename(src, dst)
RenameFile(f, src, dst) ==
    [q \in (DOMAIN f \ {src}) \cup {dst} |-> IF q = dst THEN f[src] ELSE f[q]]

\* {r} when the file at path was written by a thread other than r.
Touch(r, path) ==
    IF Exists(path) /\ fs[path].by # r /\ fs[path].by # 0 THEN {r} ELSE {}

NoResp == [status |-> 0, mimetype |-> "", msg |-> "", download_name |-> <<>>, from |-> 0]

IdleReq ==
    [pc |-> "idle", kind |-> "none", hasFile |-> FALSE, fname |-> <<>>,
     filename |-> <<>>, docx_path |-> NoPath, pdf_path |-> NoPath,
     pdf_filename |-> <<>>, exc |-> "none", returncode |-> 0, wrote |-> FALSE]

\* History kept for the properties: what a thread has done so far.
NoHist ==
    [nresp |-> 0, writes |-> 0, convCalls |-> 0, comDepth |-> 0, comAcq |-> 0,
     comRel |-> 0, comBad |-> FALSE, renames |-> 0, timeouts |-> 0, calls |-> 0,
     ret |-> "none"]

\* Backend A (docx2pdf under COM) or backend B (LibreOffice).
BackendA == IS_WINDOWS /\ USE_DOCX2PDF

\* <<IS_WINDOWS, USE_DOCX2PDF>>: Windows with docx2pdf, Windows without it,
\* any other platform.
Platforms == {<<TRUE, TRUE>>, <<TRUE, FALSE>>, <<FALSE, FALSE>>}
\* The platforms of the concurrent runs: one for each backend.
ServerPlatforms == {<<TRUE, TRUE>>, <<FALSE, FALSE>>}

InitWith(threads, names, files, platforms) ==
    /\ \E p \in platforms : IS_WINDOWS = p[1] /\ USE_DOCX2PDF = p[2]
    /\ live = threads
    /\ pool = names
    /\ fs = files
    /\ req = [r \in Procs |-> IdleReq]
    /\ resp = [r \in Procs |-> NoResp]
    /\ hist = [r \in Procs |-> NoHist]
    /\ used = {}
    /\ interf = {}

EmptyFs == [q \in {} |-> [by |-> 0, from |-> 0, call |-> 0]]

\* The server with NumRequests handler threads and an empty temp directory.
Init == InitWith(Procs, ConcNames, EmptyFs, ServerPlatforms)

\* One handler thread, every kind of upload name.
InitNames == InitWith({1}, AllNames, EmptyFs, Platforms)

\* ---------------------------------------------------------------- helpers

Set(r, fields) == [req EXCEPT ![r] = fields]
Respond(r, rec) == [resp EXCEPT ![r] = rec]
Count(r, field) == [hist EXCEPT ![r][field] = @ + 1]

Redirect(message) ==
    [status |-> 302, mimetype |-> "text/html", msg |-> message,
     download_name |-> <<>>, from |-> 0]

JsonError(message, code) ==
    [status |-> code, mimetype |-> "application/json", msg |-> message,
     download_name |-> <<>>, from |-> 0]

PdfResponse(name, src) ==
    [status |-> 200, mimetype |-> "application/pdf", msg |-> "",
     download_name |-> name, from |-> src]

\* Where control goes when perform_conversion returns to its caller.
AfterReturn(kind) ==
    CASE kind = "web" -> "send"
      [] kind = "api" -> "read"
      [] OTHER -> "returned"

\* Where control goes when perform_conversion raises: the handlers' except
\* clauses, or out of the call.
AfterRaise(kind) == IF kind \in {"web", "api"} THEN "except" ELSE "returned"

\* ------------------------------------------------------- POST /convert

\* convert_docx_to_pdf up to the try: the three checks and the temp paths.
WebValidate(r) ==
    /\ Arrives(r)
    /\ \E has \in BOOLEAN, f \in pool :
         LET filename == secure_filename(f, IS_WINDOWS)
             pdfname == pdf_filename_of(filename)
             base == [req[r] EXCEPT !.kind = "web", !.hasFile = has,
                                    !.fname = IF has THEN f ELSE <<>>]
         IN  IF ~has
             THEN /\ req' = Set(r, [base EXCEPT !.pc = "done"])
                  /\ resp' = Respond(r, Redirect("No file uploaded"))
                  /\ hist' = Count(r, "nresp")
             ELSE IF f = <<>>
             THEN /\ req' = Set(r, [base EXCEPT !.pc = "done"])
                  /\ resp' = Respond(r, Redirect("No file selected"))
                  /\ hist' = Count(r, "nresp")
             ELSE IF allowed_file(f)
             THEN /\ req' = Set(r, [base EXCEPT
                         !.pc = "save",
                         !.filename = filename,
                         !.docx_path = Join(UPLOAD_FOLDER, WebTempName(r, filename)),
                         !.pdf_filename = pdfname,
                         !.pdf_path = Join(UPLOAD_FOLDER, WebTempName(r, pdfname))])
                  /\ UNCHANGED <<resp, hist>>
             ELSE /\ req' = Set(r, [base EXCEPT !.pc = "done"])
                  /\ resp' = Respond(r, Redirect("Invalid file type. Please upload a .docx file"))
                  /\ hist' = Count(r, "nresp")
    /\ UNCHANGED <<IS_WINDOWS, USE_DOCX2PDF, live, pool, fs, used, interf>>

\* file.save(docx_path): the upload is written, or the write raises.
FileSave(r) ==
    /\ req[r].pc = "save"
    /\ \/ /\ fs' = WriteFile(fs, req[r].docx_path, [by |-> r, from |-> r, call |-> 0])
          /\ interf' = interf \cup Touch(r, req[r].docx_path)
          /\ hist' = Count(r, "writes")
          /\ req' = Set(r, [req[r] EXCEPT !.pc = "perform"])
       \/ /\ req' = Set(r, [req[r] EXCEPT !.pc = "except", !.exc = "Exception"])
          /\ UNCHANGED <<fs, interf, hist>>
    /\ UNCHANGED <<IS_WINDOWS, USE_DOCX2PDF, live, pool, resp, used>>

WebSave(r) == req[r].kind = "web" /\ FileSave(r)

\* send_file(pdf_path, ...): the file is opened, or opening it raises.
WebSendFile(r) ==
    /\ req[r].kind = "web"
    /\ req[r].pc = "send"
    /\ IF Exists(req[r].pdf_path)
       THEN /\ resp' = Respond(r, PdfResponse(req[r].pdf_filename, fs[req[r].pdf_path].from))
            /\ hist' = Count(r, "nresp")
            /\ interf' = interf \cup Touch(r, req[r].pdf_path)
            /\ req' = Set(r, [req[r] EXCEPT !.pc = "cl_docx"])
       ELSE /\ req' = Set(r, [req[r] EXCEPT !.pc = "except", !.exc = "Exception"])
            /\ UNCHANGED <<resp, hist, interf>>
    /\ UNCHANGED <<IS_WINDOWS, USE_DOCX2PDF, live, pool, fs, used>>

\* except Exception as e: flash(f'Error converting file: {str(e)}'); redirect
WebExcept(r) ==
    /\ req[r].kind = "web"
    /\ req[r].pc = "except"
    /\ resp' = Respond(r, Redirect(IF req[r].exc = "TimeoutExpired"
                                   THEN "Error converting file: timed out after 120 seconds"
                                   ELSE "Error converting file"))
    /\ hist' = Count(r, "nresp")
    /\ req' = Set(r, [req[r] EXCEPT !.pc = "cl_docx", !.exc = "none"])
    /\ UNCHANGED <<IS_WINDOWS, USE_DOCX2PDF, live, pool, fs, used, interf>>

\* finally: if os.path.exists(docx_path) ... if os.path.exists(pdf_path)
WebCleanupExists(r) ==
    /\ req[r].kind = "web"
    /\ req[r].pc \in {"cl_docx", "cl_pdf"}
    /\ LET docx == req[r].pc = "cl_docx"
           path == IF docx THEN req[r].docx_path ELSE req[r].pdf_path
       IN  req' = Set(r, [req[r] EXCEPT !.pc =
                   IF Exists(path) THEN (IF docx THEN "rm_docx" ELSE "rm_pdf")
                   ELSE (IF docx THEN "cl_pdf" ELSE "done")])
    /\ UNCHANGED <<IS_WINDOWS, USE_DOCX2PDF, live, pool, fs, resp, hist, used, interf>>

\* os.remove(..) inside the one try of the finally block: a remove that
\* raises ends the clean-up (except: pass).
WebCleanupRemove(r) ==
    /\ req[r].kind = "web"
    /\ req[r].pc \in {"rm_docx", "rm_pdf"}
    /\ LET docx == req[r].pc = "rm_docx"
           path == IF docx THEN req[r].docx_path ELSE req[r].pdf_path
       IN  IF Exists(path)
           THEN /\ fs' = RemoveFile(fs, path)
                /\ interf' = interf \cup Touch(r, path)
                /\ req' = Set(r, [req[r] EXCEPT !.pc = IF docx THEN "cl_pdf" ELSE "done"])
           ELSE /\ req' = Set(r, [req[r] EXCEPT !.pc = "done"])
                /\ UNCHANGED <<fs, interf>>
    /\ UNCHANGED <<IS_WINDOWS, USE_DOCX2PDF, live, pool, resp, hist, used>>

\* ------------------------------------------------- app.perform_conversion

\* What a converter run by thread r leaves at path out, read from path inp.
ConverterWrites(r, inp, out) ==
    /\ fs' = WriteFile(fs, out, [by |-> r, from |-> fs[inp].from, call |-> hist[r].calls])
    /\ interf' = interf \cup Touch(r, inp) \cup Touch(r, out)

\* The converter was called: counted, and noted when no COM context is held.
Called(r, needsCom) ==
    [hist EXCEPT ![r].convCalls = @ + 1,
                 ![r].comBad = @ \/ (needsCom /\ hist[r].comDepth = 0)]

\* pythoncom.CoInitialize()
CoInitialize(r) == [hist EXCEPT ![r].comDepth = @ + 1, ![r].comAcq = @ + 1]
\* pythoncom.CoUninitialize()
CoUninitialize(r) == [hist EXCEPT ![r].comDepth = @ - 1, ![r].comRel = @ + 1]

\* perform_conversion returns (e = "none") or raises e.
\* The locals of perform_conversion end with the call; what the converter
\* did is kept for the direct caller only.
Leave(r, e) ==
    LET kept == IF req[r].kind \in {"web", "api"} THEN FALSE ELSE req[r].wrote
    IN  IF e = "none"
        THEN [req[r] EXCEPT !.pc = AfterReturn(req[r].kind), !.exc = "none",
                            !.returncode = 0, !.wrote = kept]
        ELSE [req[r] EXCEPT !.pc = AfterRaise(req[r].kind), !.exc = e,
                            !.returncode = 0, !.wrote = kept]

Finish(h, r, e) ==
    IF req[r].kind \in {"web", "api"} THEN h
    ELSE [h EXCEPT ![r].ret = IF e = "none" THEN "ok" ELSE e]

\* subprocess.run raised TimeoutExpired in thread r.
TimedOut(h, r) == [h EXCEPT ![r].timeouts = @ + 1]

PC_CoInitialize(r) ==
    /\ req[r].kind \in {"web", "api", "direct"}
    /\ req[r].pc = "perform"
    /\ BackendA
    /\ hist' = CoInitialize(r)
    /\ req' = Set(r, [req[r] EXCEPT !.pc = "A_call"])
    /\ UNCHANGED <<IS_WINDOWS, USE_DOCX2PDF, live, pool, fs, resp, used, interf>>

AfterDocx2pdf_NoFinally(r, e) ==
    IF e = "none" THEN [req[r] EXCEPT !.pc = "A_release", !.exc = e] ELSE Leave(r, e)

\* try: docx2pdf_convert(..) finally: the release runs whether or not the
\* converter raised.
AfterDocx2pdf(r, e) == [req[r] EXCEPT !.pc = "A_release", !.exc = e]

\* docx2pdf_convert(docx_path, pdf_path): writes the PDF or raises.
PC_Docx2pdf(r) ==
    /\ req[r].kind \in {"web", "api", "direct"}
    /\ req[r].pc = "A_call"
    /\ \/ /\ Exists(req[r].docx_path)
          /\ ConverterWrites(r, req[r].docx_path, req[r].pdf_path)
          /\ req' = Set(r, [AfterDocx2pdf(r, "none") EXCEPT !.wrote = TRUE])
          /\ hist' = Called(r, TRUE)
       \/ /\ req' = Set(r, AfterDocx2pdf(r, "Exception"))
          /\ hist' = Finish(Called(r, TRUE), r,
                            IF AfterDocx2pdf(r, "Exception").pc = "A_release"
                            THEN "none" ELSE "Exception")
          /\ UNCHANGED <<fs, interf>>
    /\ UNCHANGED <<IS_WINDOWS, USE_DOCX2PDF, live, pool, resp, used>>

PC_CoUninitialize(r) ==
    /\ req[r].kind \in {"web", "api", "direct"}
    /\ req[r].pc = "A_release"
    /\ hist' = Finish(CoUninitialize(r), r, req[r].exc)
    /\ req' = Set(r, Leave(r, req[r].exc))
    /\ UNCHANGED <<IS_WINDOWS, USE_DOCX2PDF, live, pool, fs, resp, used, interf>>

\* subprocess.run(['libreoffice', '--headless', '--convert-to', 'pdf',
\* '--outdir', outdir, docx_path], timeout=120): the child exits 0 with its
\* output written, exits 0 without output, exits non-zero, or is killed at
\* the timeout, possibly after it began to write.
LibreOfficeRun(r, outdir, onTimeout, onExit) ==
    LET out == LibreOfficeOutput(outdir, req[r].docx_path)
    IN  \/ /\ Exists(req[r].docx_path)
           /\ ConverterWrites(r, req[r].docx_path, out)
           /\ \/ req' = Set(r, [onExit EXCEPT !.returncode = 0, !.wrote = TRUE])
              \/ req' = Set(r, onTimeout)
        \/ /\ UNCHANGED <<fs, interf>>
           /\ \/ \E rc \in {0, 1} : req' = Set(r, [onExit EXCEPT !.returncode = rc])
              \/ req' = Set(r, onTimeout)

PC_SubprocessRun(r) ==
    /\ req[r].kind \in {"web", "api", "direct"}
    /\ req[r].pc = "perform"
    /\ ~BackendA
    /\ LibreOfficeRun(r, Dirname(req[r].pdf_path),
                      Leave(r, "TimeoutExpired"),
                      [req[r] EXCEPT !.pc = "B_result"])
    /\ hist' = IF req'[r].pc = "B_result" THEN Called(r, FALSE)
               ELSE TimedOut(Finish(Called(r, FALSE), r, "TimeoutExpired"), r)
    /\ UNCHANGED <<IS_WINDOWS, USE_DOCX2PDF, live, pool, resp, used>>

\* if result.returncode != 0: raise ...; then the rename of the converter's
\* output to pdf_path.  os.rename onto an existing file raises on Windows
\* and replaces the file elsewhere.
PC_CheckResult(r) ==
    /\ req[r].kind \in {"web", "api", "direct"}
    /\ req[r].pc = "B_result"
    /\ LET expected == expected_pdf(req[r].docx_path, req[r].pdf_path)
       IN  IF req[r].returncode # 0
           THEN /\ req' = Set(r, Leave(r, "Exception"))
                /\ hist' = Finish(hist, r, "Exception")
                /\ UNCHANGED <<fs, interf>>
           ELSE IF expected # req[r].pdf_path /\ Exists(expected)
           THEN IF IS_WINDOWS /\ Exists(req[r].pdf_path)
                THEN /\ req' = Set(r, Leave(r, "FileExistsError"))
                     /\ hist' = Finish(hist, r, "FileExistsError")
                     /\ UNCHANGED <<fs, interf>>
                ELSE /\ fs' = RenameFile(fs, expected, req[r].pdf_path)
                     /\ interf' = interf \cup Touch(r, expected)
                                         \cup Touch(r, req[r].pdf_path)
                     /\ req' = Set(r, Leave(r, "none"))
                     /\ hist' = Finish([hist EXCEPT ![r].renames = @ + 1], r, "none")
           ELSE /\ req' = Set(r, Leave(r, "none"))
                /\ hist' = Finish(hist, r, "none")
                /\ UNCHANGED <<fs, interf>>
    /\ UNCHANGED <<IS_WINDOWS, USE_DOCX2PDF, live, pool, resp, used>>

\* --------------------------------------------------- POST /api/convert

\* api_convert_docx_to_pdf up to the try: the checks and the unique paths.
ApiValidate(r) ==
    /\ Arrives(r)
    /\ \E has \in BOOLEAN, f \in pool :
         LET filename == secure_filename(f, IS_WINDOWS)
             pdfname == pdf_filename_of(filename)
             base == [req[r] EXCEPT !.kind = "api", !.hasFile = has,
                                    !.fname = IF has THEN f ELSE <<>>]
         IN  IF ~has
             THEN /\ req' = Set(r, [base EXCEPT !.pc = "done"])
                  /\ resp' = Respond(r, JsonError("No file provided", 400))
                  /\ hist' = Count(r, "nresp")
                  /\ used' = used
             ELSE IF f = <<>> \/ ~allowed_file(f)
             THEN /\ req' = Set(r, [base EXCEPT !.pc = "done"])
                  /\ resp' = Respond(r,
                         JsonError("Invalid file type. Only .docx files are accepted", 400))
                  /\ hist' = Count(r, "nresp")
                  /\ used' = used
             ELSE LET unique_id == uuid4 IN
                  /\ req' = Set(r, [base EXCEPT
                         !.pc = "save",
                         !.filename = filename,
                         !.docx_path = Join(UPLOAD_FOLDER, ApiTempName(unique_id, filename)),
                         !.pdf_filename = pdfname,
                         !.pdf_path = Join(UPLOAD_FOLDER, ApiTempName(unique_id, pdfname))])
                  /\ used' = used \cup {unique_id}
                  /\ UNCHANGED <<resp, hist>>
    /\ UNCHANGED <<IS_WINDOWS, USE_DOCX2PDF, live, pool, fs, interf>>

ApiSave(r) == req[r].kind = "api" /\ FileSave(r)

ApiReadPdf_NoCheck(r) ==
    /\ req[r].kind = "api"
    /\ req[r].pc = "read"
    /\ resp' = Respond(r, PdfResponse(req[r].pdf_filename,
                   IF Exists(req[r].pdf_path) THEN fs[req[r].pdf_path].from ELSE 0))
    /\ hist' = Count(r, "nresp")
    /\ interf' = interf \cup Touch(r, req[r].pdf_path)
    /\ req' = Set(r, [req[r] EXCEPT !.pc = "cl_docx"])
    /\ UNCHANGED <<IS_WINDOWS, USE_DOCX2PDF, live, pool, fs, used>>

\* with open(pdf_path, 'rb') ...: send_file(pdf_data, ...), or open raises.
ApiReadPdf(r) ==
    /\ req[r].kind = "api"
    /\ req[r].pc = "read"
    /\ IF Exists(req[r].pdf_path)
       THEN /\ resp' = Respond(r, PdfResponse(req[r].pdf_filename, fs[req[r].pdf_path].from))
            /\ hist' = Count(r, "nresp")
            /\ interf' = interf \cup Touch(r, req[r].pdf_path)
            /\ req' = Set(r, [req[r] EXCEPT !.pc = "cl_docx"])
       ELSE /\ req' = Set(r, [req[r] EXCEPT !.pc = "except", !.exc = "Exception"])
            /\ UNCHANGED <<resp, hist, interf>>
    /\ UNCHANGED <<IS_WINDOWS, USE_DOCX2PDF, live, pool, fs, used>>

ApiErrorBody_Generic(e) == JsonError("Conversion failed", 500)

\* except subprocess.TimeoutExpired: ... 500 / except Exception as e: ... 500
ApiErrorBody(e) ==
    IF e = "TimeoutExpired"
    THEN JsonError("Conversion timeout - file may be too large or complex", 500)
    ELSE JsonError("Conversion failed", 500)

ApiExcept(r) ==
    /\ req[r].kind = "api"
    /\ req[r].pc = "except"
    /\ resp' = Respond(r, ApiErrorBody(req[r].exc))
    /\ hist' = Count(r, "nresp")
    /\ req' = Set(r, [req[r] EXCEPT !.pc = "cl_docx", !.exc = "none"])
    /\ UNCHANGED <<IS_WINDOWS, USE_DOCX2PDF, live, pool, fs, used, interf>>

\* finally: for path in [docx_path, pdf_path]: if os.path.exists(path)
ApiCleanupExists(r) ==
    /\ req[r].kind = "api"
    /\ req[r].pc \in {"cl_docx", "cl_pdf"}
    /\ LET docx == req[r].pc = "cl_docx"
           path == IF docx THEN req[r].docx_path ELSE req[r].pdf_path
       IN  req' = Set(r, [req[r] EXCEPT !.pc =
                   IF Exists(path) THEN (IF docx THEN "rm_docx" ELSE "rm_pdf")
                   ELSE (IF docx THEN "cl_pdf" ELSE "done")])
    /\ UNCHANGED <<IS_WINDOWS, USE_DOCX2PDF, live, pool, fs, resp, hist, used, interf>>

\* os.remove(path) in the try of its own loop round: a remove that raises
\* is passed over and the loop goes on to the next path.
ApiCleanupRemove(r) ==
    /\ req[r].kind = "api"
    /\ req[r].pc \in {"rm_docx", "rm_pdf"}
    /\ LET docx == req[r].pc = "rm_docx"
           path == IF docx THEN req[r].docx_path ELSE req[r].pdf_path
       IN  /\ IF Exists(path)
              THEN /\ fs' = RemoveFile(fs, path)
                   /\ interf' = interf \cup Touch(r, path)
              ELSE UNCHANGED <<fs, interf>>
           /\ req' = Set(r, [req[r] EXCEPT !.pc = IF docx THEN "cl_pdf" ELSE "done"])
    /\ UNCHANGED <<IS_WINDOWS, USE_DOCX2PDF, live, pool, resp, hist, used>>

\* ------------------------------------- the dispatcher called on its own

F_in_a == Join("in", N_a_docx)
F_in_b == Join("in", N_b_docx)

\* Input paths a caller passes: one that exists and one that does not.
CallInputs == {F_in_a, F_in_b}
\* Output paths a caller of perform_conversion asks for.
CallOutputs == {Join("out", N_a_pdf), Join("out", N_b_pdf), Join("in", N_a_pdf)}
\* output_dir of convert_docx_to_pdf
CallOutputDirs == {"None", "out"}

InputFs == [q \in {F_in_a} |-> [by |-> 0, from |-> 0, call |-> 0]]

\* One caller, the input document in place.
InitCalls == InitWith({1}, {N_a_docx}, InputFs, Platforms)

\* A caller calls perform_conversion(docx_path, pdf_path).
DirectCall(r) ==
    /\ r \in live
    /\ req[r].pc = "idle"
    /\ hist[r].calls < MaxCalls
    /\ \E d \in CallInputs, p \in CallOutputs :
         req' = Set(r, [IdleReq EXCEPT !.kind = "direct", !.pc = "perform",
                                       !.docx_path = d, !.pdf_path = p])
    /\ hist' = [hist EXCEPT ![r].calls = @ + 1, ![r].ret = "none", ![r].renames = 0]
    /\ UNCHANGED <<IS_WINDOWS, USE_DOCX2PDF, live, pool, fs, resp, used, interf>>

\* docx_pdf_converter.convert_docx_to_pdf(docx_path, output_dir) up to the
\* platform test: the input check and the output path.
LibCall(r) ==
    /\ r \in live
    /\ req[r].pc = "idle"
    /\ hist[r].calls < MaxCalls
    /\ \E d \in CallInputs, output_dir \in CallOutputDirs :
         LET dir == IF output_dir = "None" THEN Dirname(d) ELSE output_dir
             base == [IdleReq EXCEPT !.kind = "lib", !.docx_path = d]
         IN  IF ~Exists(d)
             THEN /\ req' = Set(r, [base EXCEPT !.pc = "returned",
                                                !.exc = "FileNotFoundError"])
                  /\ hist' = [hist EXCEPT ![r].calls = @ + 1,
                                          ![r].ret = "FileNotFoundError"]
             ELSE /\ req' = Set(r, [base EXCEPT
                         !.pc = "lib_convert",
                         !.pdf_filename = pdf_filename_of(Basename(d)),
                         !.pdf_path = Join(dir, pdf_filename_of(Basename(d)))])
                  /\ hist' = [hist EXCEPT ![r].calls = @ + 1, ![r].ret = "none"]
    /\ UNCHANGED <<IS_WINDOWS, USE_DOCX2PDF, live, pool, fs, resp, used, interf>>

LibCoInitialize(r) ==
    /\ req[r].kind = "lib"
    /\ req[r].pc = "lib_convert"
    /\ BackendA
    /\ hist' = CoInitialize(r)
    /\ req' = Set(r, [req[r] EXCEPT !.pc = "A_call"])
    /\ UNCHANGED <<IS_WINDOWS, USE_DOCX2PDF, live, pool, fs, resp, used, interf>>

LibDocx2pdf(r) ==
    /\ req[r].kind = "lib"
    /\ req[r].pc = "A_call"
    /\ \/ /\ Exists(req[r].docx_path)
          /\ ConverterWrites(r, req[r].docx_path, req[r].pdf_path)
          /\ req' = Set(r, [req[r] EXCEPT !.pc = "A_release", !.wrote = TRUE])
       \/ /\ req' = Set(r, [req[r] EXCEPT !.pc = "A_release", !.exc = "Exception"])
          /\ UNCHANGED <<fs, interf>>
    /\ hist' = Called(r, TRUE)
    /\ UNCHANGED <<IS_WINDOWS, USE_DOCX2PDF, live, pool, resp, used>>

LibCoUninitialize(r) ==
    /\ req[r].kind = "lib"
    /\ req[r].pc = "A_release"
    /\ IF req[r].exc = "none"
       THEN /\ req' = Set(r, [req[r] EXCEPT !.pc = "lib_verify"])
            /\ hist' = CoUninitialize(r)
       ELSE /\ req' = Set(r, [req[r] EXCEPT !.pc = "returned"])
            /\ hist' = [CoUninitialize(r) EXCEPT ![r].ret = req[r].exc]
    /\ UNCHANGED <<IS_WINDOWS, USE_DOCX2PDF, live, pool, fs, resp, used, interf>>

\* subprocess.run(.., '--outdir', output_dir, docx_path) and the test of
\* result.returncode.
LibSubprocessRun(r) ==
    /\ req[r].kind = "lib"
    /\ req[r].pc = "lib_convert"
    /\ ~BackendA
    /\ LibreOfficeRun(r, Dirname(req[r].pdf_path),
                      [req[r] EXCEPT !.pc = "returned", !.exc = "TimeoutExpired"],
                      [req[r] EXCEPT !.pc = "lib_rc"])
    /\ hist' = IF req'[r].pc = "lib_rc" THEN Called(r, FALSE)
               ELSE TimedOut([Called(r, FALSE) EXCEPT ![r].ret = "TimeoutExpired"], r)
    /\ UNCHANGED <<IS_WINDOWS, USE_DOCX2PDF, live, pool, resp, used>>

LibCheckResult(r) ==
    /\ req[r].kind = "lib"
    /\ req[r].pc = "lib_rc"
    /\ IF req[r].returncode # 0
       THEN /\ req' = Set(r, [req[r] EXCEPT !.pc = "returned", !.exc = "Exception"])
            /\ hist' = [hist EXCEPT ![r].ret = "Exception"]
       ELSE /\ req' = Set(r, [req[r] EXCEPT !.pc = "lib_verify"])
            /\ UNCHANGED hist
    /\ UNCHANGED <<IS_WINDOWS, USE_DOCX2PDF, live, pool, fs, resp, used, interf>>

\* if not os.path.exists(pdf_path): raise Exception('PDF file was not
\* created ...'); return pdf_path
LibVerify(r) ==
    /\ req[r].kind = "lib"
    /\ req[r].pc = "lib_verify"
    /\ IF Exists(req[r].pdf_path)
       THEN /\ req' = Set(r, [req[r] EXCEPT !.pc = "returned"])
            /\ hist' = [hist EXCEPT ![r].ret = "ok"]
       ELSE /\ req' = Set(r, [req[r] EXCEPT !.pc = "returned", !.exc = "OutputMissing"])
            /\ hist' = [hist EXCEPT ![r].ret = "OutputMissing"]
    /\ UNCHANGED <<IS_WINDOWS, USE_DOCX2PDF, live, pool, fs, resp, used, interf>>

\* The caller takes the result and is ready for its next call.
CallDone(r) ==
    /\ req[r].kind \in {"direct", "lib"}
    /\ req[r].pc = "returned"
    /\ req' = Set(r, IdleReq)
    /\ UNCHANGED <<IS_WINDOWS, USE_DOCX2PDF, live, pool, fs, resp, hist, used, interf>>

\* ---------------------------------------------------------- specifications

Conversion(r) ==
    \/ PC_CoInitialize(r)
    \/ PC_Docx2pdf(r)
    \/ PC_CoUninitialize(r)
    \/ PC_SubprocessRun(r)
    \/ PC_CheckResult(r)

Web(r) ==
    \/ WebValidate(r)
    \/ WebSave(r)
    \/ WebSendFile(r)
    \/ WebExcept(r)
    \/ WebCleanupExists(r)
    \/ WebCleanupRemove(r)

Api(r) ==
    \/ ApiValidate(r)
    \/ ApiSave(r)
    \/ ApiReadPdf(r)
    \/ ApiExcept(r)
    \/ ApiCleanupExists(r)
    \/ ApiCleanupRemove(r)

Lib(r) ==
    \/ LibCall(r)
    \/ LibCoInitialize(r)
    \/ LibDocx2pdf(r)
    \/ LibCoUninitialize(r)
    \/ LibSubprocessRun(r)
    \/ LibCheckResult(r)
    \/ LibVerify(r)

Next == \E r \in Procs : Web(r) \/ Api(r) \/ Conversion(r)

NextCalls == \E r \in Procs : DirectCall(r) \/ Lib(r) \/ Conversion(r) \/ CallDone(r)

NextApi == \E r \in Procs : Api(r) \/ Conversion(r)

NextWeb == \E r \in Procs : Web(r) \/ Conversion(r)

\* The server: NumRequests threads, each handling one request.
Spec == Init /\ [][Next]_vars

\* The server when every request goes to POST /api/convert.
SpecApi == Init /\ [][NextApi]_vars

\* The server when every request goes to POST /convert.
SpecWeb == Init /\ [][NextWeb]_vars

\* One request at a time, every kind of upload name.
SpecNames == InitNames /\ [][Next]_vars

\* The dispatcher's two entry points called one call after another.
SpecCalls == InitCalls /\ [][NextCalls]_vars

\* ------------------------------------------------------------- properties

Handled(r) == req[r].kind \in {"web", "api"}
Done(r) == Handled(r) /\ req[r].pc = "done"
\* The request passed validation: its temp paths are set.
Staged(r) == Handled(r) /\ req[r].docx_path # NoPath
\* The files thread r wrote that are still there.
FilesBy(r) == {p \in DOMAIN fs : fs[p].by = r}
PathsOf(r) == {req[r].docx_path, req[r].pdf_path}

\* The last five characters are ".docx" in some letter case.
HasDocxExtension(f) ==
    /\ Len(f) >= 5
    /\ LowerSeq(SubSeq(f, Len(f) - 4, Len(f))) = <<".", "d", "o", "c", "x">>

\* The first validation check the upload fails, 0 when it passes all three.
FirstFailedCheck(r) ==
    IF ~req[r].hasFile THEN 1
    ELSE IF req[r].fname = <<>> THEN 2
    ELSE IF ~HasDocxExtension(req[r].fname) THEN 3
    ELSE 0

\* C1 (as claimed): once a request to /convert or /api/convert has its
\* response, no temp file that request wrote is left in the temp directory.
C1_ArtifactsAbsentAfterResponse ==
    \A r \in Procs : Done(r) => FilesBy(r) = {}

\* C2: a request that fails check (1) file present, (2) name non-empty or
\* (3) extension docx in any letter case is answered with the rejection of
\* the first check it fails, has written no file and has called no converter.
C2_RejectedBeforeAnyWrite ==
    \A r \in Procs :
        (Handled(r) /\ FirstFailedCheck(r) # 0) =>
            /\ req[r].pc = "done"
            /\ ~Staged(r)
            /\ hist[r].writes = 0
            /\ hist[r].convCalls = 0
            /\ FilesBy(r) = {}
            /\ hist[r].nresp = 1
            /\ IF req[r].kind = "web"
               THEN /\ resp[r].status = 302
                    /\ resp[r].msg =
                         CASE FirstFailedCheck(r) = 1 -> "No file uploaded"
                           [] FirstFailedCheck(r) = 2 -> "No file selected"
                           [] OTHER -> "Invalid file type. Please upload a .docx file"
               ELSE /\ resp[r].status = 400
                    /\ resp[r].msg =
                         IF FirstFailedCheck(r) = 1 THEN "No file provided"
                         ELSE "Invalid file type. Only .docx files are accepted"

\* C2 witness: an upload named a.docx.txt was rejected on /api/convert.
C2_Witness ==
    \E r \in Procs :
        /\ Done(r) /\ req[r].kind = "api"
        /\ req[r].fname = N_a_docx_txt
        /\ resp[r].status = 400

\* C3: a request to /api/convert gets at most one response, and exactly one
\* by the time its handler ends; 400 with the JSON error of the failed check
\* for bad input, 500 with a JSON error when saving, converting or reading
\* failed or timed out, and 200 application/pdf only with the PDF the
\* converter made from the upload.
C3_ApiOneResponse ==
    \A r \in Procs :
        req[r].kind = "api" =>
            /\ hist[r].nresp <= 1
            /\ (req[r].pc \in {"cl_docx", "rm_docx", "cl_pdf", "rm_pdf", "done"})
                   = (hist[r].nresp = 1)
            /\ req[r].pc = "done" => req[r].exc = "none"
            /\ hist[r].nresp = 1 =>
                 /\ resp[r].status \in {200, 400, 500}
                 /\ resp[r].status = 400 =>
                      /\ FirstFailedCheck(r) # 0
                      /\ resp[r].mimetype = "application/json"
                      /\ resp[r].msg =
                           IF FirstFailedCheck(r) = 1 THEN "No file provided"
                           ELSE "Invalid file type. Only .docx files are accepted"
                 /\ resp[r].status = 500 =>
                      /\ FirstFailedCheck(r) = 0
                      /\ resp[r].mimetype = "application/json"
                      /\ resp[r].msg \in
                           {"Conversion failed",
                            "Conversion timeout - file may be too large or complex"}
                 /\ resp[r].status = 200 =>
                      /\ FirstFailedCheck(r) = 0
                      /\ resp[r].mimetype = "application/pdf"
                      /\ hist[r].convCalls = 1
                      /\ hist[r].timeouts = 0
                      /\ resp[r].from = r

\* C3 witness: a request to /api/convert ended with a 500 'Conversion
\* failed' after its converter had run.
C3_Witness ==
    \E r \in Procs :
        /\ Done(r) /\ req[r].kind = "api"
        /\ resp[r].status = 500 /\ resp[r].msg = "Conversion failed"
        /\ hist[r].convCalls = 1

\* The part of a name from its last dot on.
Suffix(name) == SubSeq(name, Len(Stem(name)) + 1, Len(name))

\* C4 (as claimed): the download name of a successful conversion has the
\* stem of the uploaded file's original name and the extension .pdf.
C4_StemOfOriginalName ==
    \A r \in Procs :
        (Handled(r) /\ resp[r].status = 200) =>
            /\ Stem(resp[r].download_name) = Stem(req[r].fname)
            /\ Suffix(resp[r].download_name) = PDF_EXT

\* C4 (amended): the download name of a successful conversion has the stem
\* of the sanitised upload name (secure_filename) and the extension .pdf;
\* it has the stem of the original name whenever sanitising leaves the
\* name as it was.
C4_StemOfSanitisedName ==
    \A r \in Procs :
        (Handled(r) /\ resp[r].status = 200) =>
            LET san == secure_filename(req[r].fname, IS_WINDOWS)
            IN  /\ Stem(resp[r].download_name) = Stem(san)
                /\ Suffix(resp[r].download_name) = PDF_EXT
                /\ san = req[r].fname =>
                       Stem(resp[r].download_name) = Stem(req[r].fname)

\* C4 witness: Rep.DOCX came back as Rep.pdf.
C4_Witness ==
    \E r \in Procs :
        /\ resp[r].status = 200
        /\ req[r].fname = N_Rep_DOCX
        /\ resp[r].download_name = <<"R", "e", "p", ".", "p", "d", "f">>

\* C5 (as claimed): a call of the dispatcher (perform_conversion or
\* convert_docx_to_pdf) that returns without raising leaves a PDF at the
\* target path.
C5_ReturnMeansPdfExists ==
    \A r \in Procs :
        (req[r].kind \in {"direct", "lib"} /\ req[r].pc = "returned"
            /\ hist[r].ret = "ok") => Exists(req[r].pdf_path)

\* C6 (as claimed): a request whose converter timed out is answered with a
\* server-error status, and no file the request wrote is left.
C6_TimeoutIsServerError ==
    \A r \in Procs :
        (Done(r) /\ hist[r].timeouts > 0) =>
            /\ resp[r].status = 500
            /\ FilesBy(r) = {}

\* C6 (amended): after a converter timeout /api/convert answers 500 with
\* the timeout message and no file of the request is left; /convert
\* answers with the redirect and the flashed time-out error, and the
\* request's staged input is gone.
C6_TimeoutResponse ==
    \A r \in Procs :
        (Handled(r) /\ hist[r].timeouts > 0) =>
            /\ ~BackendA
            /\ hist[r].nresp = 1 =>
                 IF req[r].kind = "api"
                 THEN /\ resp[r].status = 500
                      /\ resp[r].mimetype = "application/json"
                      /\ resp[r].msg = "Conversion timeout - file may be too large or complex"
                      /\ resp[r].msg # "Conversion failed"
                 ELSE /\ resp[r].status = 302
                      /\ resp[r].msg = "Error converting file: timed out after 120 seconds"
            /\ req[r].pc = "done" =>
                 /\ hist[r].nresp = 1
                 /\ IF req[r].kind = "api"
                    THEN FilesBy(r) = {}
                    ELSE req[r].docx_path \notin FilesBy(r)

\* C6 witness: a request to /api/convert timed out after the converter had
\* begun its output, and ended with the 500.
C6_Witness ==
    \E r \in Procs :
        /\ Done(r) /\ req[r].kind = "api"
        /\ hist[r].timeouts = 1
        /\ resp[r].status = 500

\* C7: the temp paths of a request to /api/convert are shared with no other
\* request, the request touches no file of another request, every file it
\* wrote lies at its own paths, and a 200 carries the PDF made from its own
\* upload.
C7_ApiPathsDisjoint ==
    \A r \in Procs :
        (req[r].kind = "api" /\ Staged(r)) =>
            /\ \A q \in Procs \ {r} : Staged(q) => PathsOf(r) \cap PathsOf(q) = {}
            /\ r \notin interf
            /\ FilesBy(r) \subseteq PathsOf(r)
            /\ \A p \in PathsOf(r) : Exists(p) => fs[p].by = r
            /\ resp[r].status = 200 => resp[r].from = r

\* C7 witness: two requests to /api/convert with the same upload name both
\* got their own PDF.
C7_Witness ==
    \E r, q \in Procs :
        /\ r # q
        /\ req[r].kind = "api" /\ req[q].kind = "api"
        /\ req[r].fname = req[q].fname
        /\ Done(r) /\ Done(q)
        /\ resp[r].status = 200 /\ resp[q].status = 200

\* C8: two requests to /convert whose uploads have the same sanitised name
\* use the same docx_path and the same pdf_path.
C8_WebPathsShared ==
    \A r, q \in Procs :
        (req[r].kind = "web" /\ req[q].kind = "web" /\ Staged(r) /\ Staged(q)
            /\ req[r].filename = req[q].filename) =>
            /\ req[r].docx_path = req[q].docx_path
            /\ req[r].pdf_path = req[q].pdf_path

\* C8 witness: a request to /convert returned the PDF converted from the
\* other request's upload, after that request had overwritten its input.
C8_Witness ==
    \E r, q \in Procs :
        /\ r # q
        /\ req[r].kind = "web" /\ req[q].kind = "web"
        /\ resp[r].status = 200
        /\ resp[r].from = q
        /\ q \in interf

\* C9: with backend A the converter runs only inside an acquired COM
\* context, a thread holds the context exactly while it is between acquire
\* and release, and outside a conversion its acquires, its releases and its
\* converter calls are equal in number; with backend B no context is taken.
C9_ComBracket ==
    \A r \in Procs :
        /\ ~hist[r].comBad
        /\ hist[r].comDepth = IF req[r].pc \in {"A_call", "A_release"} THEN 1 ELSE 0
        /\ hist[r].comAcq = hist[r].comRel + hist[r].comDepth
        /\ req[r].pc \notin {"A_call", "A_release"} =>
               hist[r].comAcq = (IF BackendA THEN hist[r].convCalls ELSE 0)

\* C9 witness: the converter raised in a second call and both contexts
\* were released.
C9_Witness ==
    \E r \in Procs :
        /\ BackendA
        /\ req[r].pc = "returned" /\ hist[r].ret = "Exception"
        /\ hist[r].comAcq = 2 /\ hist[r].comRel = 2

\* The file the converter of the running call of thread r wrote is at path.
ProducedAt(r, path) ==
    Exists(path) /\ fs[path].by = r /\ fs[path].call = hist[r].calls

\* C10: when perform_conversion with backend B returns after the converter
\* exited 0 with its output written, the output is at pdf_path; if the
\* converter-derived path differs from pdf_path one rename was made and
\* nothing is left at the converter-derived path, and if the two are equal
\* no rename was made.
C10_OutputAtRequestedPath ==
    \A r \in Procs :
        (req[r].kind = "direct" /\ req[r].pc = "returned" /\ hist[r].ret = "ok"
            /\ ~BackendA /\ req[r].wrote) =>
            LET derived == LibreOfficeOutput(Dirname(req[r].pdf_path), req[r].docx_path)
            IN  /\ ProducedAt(r, req[r].pdf_path)
                /\ IF derived # req[r].pdf_path
                   THEN ~Exists(derived) /\ hist[r].renames = 1
                   ELSE hist[r].renames = 0

\* C10 witness: the converter wrote out/a.pdf, the caller asked for
\* out/b.pdf and got it.
C10_Witness ==
    \E r \in Procs :
        /\ req[r].kind = "direct" /\ req[r].pc = "returned" /\ hist[r].ret = "ok"
        /\ ~BackendA /\ req[r].wrote
        /\ req[r].pdf_path = Join("out", N_b_pdf)
        /\ ProducedAt(r, req[r].pdf_path)
        /\ hist[r].renames = 1

====
